---------------------------- MODULE Spec2Model ----------------------------
(***************************************************************************)
(* Model of two parts of the repository:                                   *)
(*   - op-node/node/config.go: the node Config, MetricsConfig.Check,       *)
(*     Config.LoadPersisted and Config.Check;                              *)
(*   - packages/contracts-bedrock/src/L2/SoulGasToken.sol: the soul-bound  *)
(*     gas token and its mint / burn / deposit / withdraw entry points.    *)
(* The node is checked under SpecNode, the token under SpecSoulETH and     *)
(* SpecSoulQKC; the variables of the other part keep their initial value.  *)
(***************************************************************************)
EXTENDS Integers, Sequences, FiniteSets, TLC

VARIABLES
    cfg,        \* the node Config (config.go, type Config)
    store,      \* what cfg.ConfigPersistence.SequencerState() answers
    last,       \* the last call made on the Config and what it returned
    minters,    \* SoulGasTokenStorage._minters
    burners,    \* SoulGasTokenStorage._burners
    allowSgtValue, \* SoulGasTokenStorage._allow_sgt_value
    balances,   \* ERC20 _balances of the token
    totalSupply,\* ERC20 _totalSupply of the token
    native,     \* native-token balance of every address, the contract included
    backed,     \* IS_BACKED_BY_NATIVE (immutable, set by the constructor)
    tx          \* the last transaction sent to the token and its outcome

nodeVars  == <<cfg, store, last>>
tokenVars == <<minters, burners, allowSgtValue, balances, totalSupply, native,
               backed, tx>>
vars      == <<cfg, store, last, minters, burners, allowSgtValue, balances,
               totalSupply, native, backed, tx>>

(***************************************************************************)
(*                       PART 1: op-node/node/config.go                    *)
(***************************************************************************)

\* Bounds of the node model.
MaxChanged == 2   \* fields in which a Config differs from a deployment profile
PortSlack  == 1   \* how far around 0 and MaxUint16 the listen ports range

\* math.MaxUint16
MaxUint16 == 65535

\* ---- errors -------------------------------------------------------------
\* A Go error value: its own message and the message of the error it wraps
\* (fmt.Errorf("...: %w", err)); Nil is the nil error.
Nil == [msg |-> "", wraps |-> ""]
New(m) == [msg |-> m, wraps |-> ""]
Errorf(m, inner) == [msg |-> m, wraps |-> inner.msg]

\* The error a collaborator's own Check() returns when that sub-configuration
\* is invalid; the collaborators are outside this file, so the error is named
\* after the sub-configuration that produced it.
SubErr(who) == New(who \o " invalid")

\* ---- persisted sequencer state -----------------------------------------
StateUnset   == "StateUnset"
StateStarted == "StateStarted"
StateStopped == "StateStopped"
RunStates    == {StateUnset, StateStarted, StateStopped}
StoreErr     == New("persisted state unreadable")

\* Every (state, err) pair SequencerState() can return.
StoreAnswers == [state : RunStates, err : {Nil, StoreErr}]

\* ---- the Config ---------------------------------------------------------
Ports == (-PortSlack .. PortSlack) \cup ((MaxUint16 - PortSlack) .. (MaxUint16 + PortSlack))

\* The values each field of Config ranges over.  An endpoint or sub-config
\* whose Check() lives outside this file is "ok" or "bad" (what its Check()
\* answers); a nilable one can also be "nil".  A nilable timestamp is set
\* (TRUE) or nil (FALSE).
Domain ==
    [ L1               |-> {"ok", "bad"},
      L2               |-> {"ok", "bad"},
      EcotoneTime      |-> BOOLEAN,
      Beacon           |-> {"nil", "ok", "bad"},
      InteropTime      |-> BOOLEAN,
      Supervisor       |-> {"nil", "ok", "bad"},
      Rollup           |-> {"ok", "bad"},
      L2BlobTime       |-> BOOLEAN,
      MetricsEnabled   |-> BOOLEAN,
      MetricsPort      |-> Ports,
      Pprof            |-> {"ok", "bad"},
      P2P              |-> {"nil", "ok", "bad"},
      RollupHalt       |-> {"", "major", "minor", "patch", "all"},
      ConductorEnabled |-> BOOLEAN,
      SequencerEnabled |-> BOOLEAN,
      SequencerStopped |-> BOOLEAN,
      AltDA            |-> {"ok", "bad"},
      AltDAEnabled     |-> BOOLEAN,
      DACConfig        |-> {"nil", "set"} ]

Fields == DOMAIN Domain

\* The fields in the order of the struct.
FieldList ==
    << "L1", "L2", "Beacon", "Supervisor", "SequencerEnabled", "SequencerStopped",
       "Rollup", "EcotoneTime", "InteropTime", "L2BlobTime", "P2P",
       "MetricsEnabled", "MetricsPort", "Pprof", "RollupHalt",
       "ConductorEnabled", "AltDA", "AltDAEnabled", "DACConfig" >>

\* Two deployment profiles that pass Check: a verifier node before any
\* upgrade, and a monitored sequencer node after Ecotone that posts L2 blobs
\* to a data-availability committee.
Verifier ==
    [ L1 |-> "ok", L2 |-> "ok", EcotoneTime |-> FALSE, Beacon |-> "nil",
      InteropTime |-> FALSE, Supervisor |-> "nil", Rollup |-> "ok",
      L2BlobTime |-> FALSE, MetricsEnabled |-> FALSE, MetricsPort |-> 0,
      Pprof |-> "ok", P2P |-> "nil", RollupHalt |-> "",
      ConductorEnabled |-> FALSE, SequencerEnabled |-> FALSE,
      SequencerStopped |-> FALSE, AltDA |-> "ok", AltDAEnabled |-> FALSE,
      DACConfig |-> "nil" ]

Sequencer ==
    [ Verifier EXCEPT !.SequencerEnabled = TRUE, !.L2BlobTime = TRUE,
                      !.DACConfig = "set", !.EcotoneTime = TRUE,
                      !.Beacon = "ok", !.P2P = "ok",
                      !.MetricsEnabled = TRUE, !.MetricsPort = 1 ]

Profiles == {Verifier, Sequencer}

\* The ways to set at most k of the fields FieldList[from], FieldList[from+1],
\* ... : sequences of <<field index, value>> with increasing indices.
RECURSIVE Changes(_, _)
Changes(k, from) ==
    IF k = 0 THEN {<<>>}
    ELSE {<<>>} \cup
         UNION { { <<<<i, v>>>> \o rest :
                     v \in Domain[FieldList[i]], rest \in Changes(k - 1, i + 1) }
                 : i \in from .. Len(FieldList) }

RECURSIVE Apply(_, _)
Apply(c, changes) ==
    IF changes = <<>> THEN c
    ELSE Apply([c EXCEPT ![FieldList[Head(changes)[1]]] = Head(changes)[2]],
               Tail(changes))

\* Mutant of MetricsCheck: the upper bound tested with >=.
MetricsCheck_OffByOne(m) ==
    IF ~m.Enabled THEN Nil
    ELSE IF m.ListenPort < 0 \/ m.ListenPort >= MaxUint16
         THEN New("invalid metrics port")
         ELSE Nil

\* ---- MetricsConfig.Check -----------------------------------------------
\* m is [Enabled, ListenPort].
MetricsCheck(m) ==
    IF ~m.Enabled THEN Nil
    ELSE IF m.ListenPort < 0 \/ m.ListenPort > MaxUint16
         THEN New("invalid metrics port")
         ELSE Nil

Metrics(c) == [Enabled |-> c.MetricsEnabled, ListenPort |-> c.MetricsPort]

\* Mutant of LoadPersisted: a persisted "started" does not clear a supplied
\* "stopped".
LoadPersisted_KeepsSupplied(c, answer) ==
    IF ~c.SequencerEnabled
    THEN [cfg |-> c, err |-> Nil, reads |-> 0, logs |-> <<>>]
    ELSE IF answer.err # Nil
    THEN [cfg |-> c, err |-> answer.err, reads |-> 1, logs |-> <<>>]
    ELSE IF answer.state # StateUnset
    THEN LET stopped == (answer.state = StateStopped) \/ c.SequencerStopped
         IN  [cfg   |-> [c EXCEPT !.SequencerStopped = stopped],
              err   |-> Nil,
              reads |-> 1,
              logs  |-> <<>>]
    ELSE [cfg |-> c, err |-> Nil, reads |-> 1,
          logs |-> <<"info: no persisted sequencer state loaded">>]

\* ---- Config.LoadPersisted ----------------------------------------------
\* The result of a call: the Config it leaves, the error it returns, the
\* number of reads of the persisted-state store and the notices it logged.
LoadPersisted(c, answer) ==
    IF ~c.SequencerEnabled
    THEN [cfg |-> c, err |-> Nil, reads |-> 0, logs |-> <<>>]
    ELSE IF answer.err # Nil
    THEN [cfg |-> c, err |-> answer.err, reads |-> 1, logs |-> <<>>]
    ELSE IF answer.state # StateUnset
    THEN LET stopped == (answer.state = StateStopped)
         IN  [cfg   |-> [c EXCEPT !.SequencerStopped = stopped],
              err   |-> Nil,
              reads |-> 1,
              logs  |-> IF stopped # c.SequencerStopped
                        THEN <<"warn: overriding sequencer.stopped with persisted state">>
                        ELSE <<>>]
    ELSE [cfg |-> c, err |-> Nil, reads |-> 1,
          logs |-> <<"info: no persisted sequencer state loaded">>]

\* ---- Config.Check, statement by statement -------------------------------
\* The outcome of one statement of Check: the error it returns (Nil: fall
\* through to the next statement), the store reads and the notices it made.
Pass    == [err |-> Nil, reads |-> 0, logs |-> <<>>]
Fail(e) == [err |-> e,   reads |-> 0, logs |-> <<>>]

L1Step(c) ==
    IF c.L1 # "ok"
    THEN Fail(Errorf("l2 endpoint config error", SubErr("L1")))
    ELSE Pass

L2Step(c) ==
    IF c.L2 # "ok"
    THEN Fail(Errorf("l2 endpoint config error", SubErr("L2")))
    ELSE Pass

EcotoneStep(c) ==
    IF c.EcotoneTime
    THEN IF c.Beacon = "nil"
         THEN Fail(New("the Ecotone upgrade is scheduled but no L1 Beacon API endpoint is configured"))
         ELSE IF c.Beacon # "ok"
         THEN Fail(Errorf("misconfigured L1 Beacon API endpoint", SubErr("Beacon")))
         ELSE Pass
    ELSE Pass

\* Mutant of InteropStep: the supervisor endpoint's own Check is not called.
InteropStep_NoEndpointCheck(c) ==
    IF c.InteropTime
    THEN IF c.Supervisor = "nil"
         THEN Fail(New("the Interop upgrade is scheduled but no supervisor RPC endpoint is configured"))
         ELSE Pass
    ELSE Pass

InteropStep(c) ==
    IF c.InteropTime
    THEN IF c.Supervisor = "nil"
         THEN Fail(New("the Interop upgrade is scheduled but no supervisor RPC endpoint is configured"))
         ELSE IF c.Supervisor # "ok"
         THEN Fail(Errorf("misconfigured supervisor RPC endpoint", SubErr("Supervisor")))
         ELSE Pass
    ELSE Pass

RollupStep(c) ==
    IF c.Rollup # "ok"
    THEN Fail(Errorf("rollup config error", SubErr("Rollup")))
    ELSE Pass

MetricsStep(c) ==
    LET err == MetricsCheck(Metrics(c))
    IN  IF err # Nil THEN Fail(Errorf("metrics config error", err)) ELSE Pass

PprofStep(c) ==
    IF c.Pprof # "ok"
    THEN Fail(Errorf("pprof config error", SubErr("Pprof")))
    ELSE Pass

P2PStep(c) ==
    IF c.P2P # "nil"
    THEN IF c.P2P # "ok"
         THEN Fail(Errorf("p2p config error", SubErr("P2P")))
         ELSE Pass
    ELSE Pass

RollupHaltStep(c) ==
    IF ~(c.RollupHalt = "" \/ c.RollupHalt = "major" \/ c.RollupHalt = "minor"
         \/ c.RollupHalt = "patch")
    THEN Fail(New("invalid rollup halting option"))
    ELSE Pass

\* Mutant of ConductorStep: the persisted state is not looked at.
ConductorStep_IgnoresStore(c, answer) ==
    IF c.ConductorEnabled
    THEN IF ~c.SequencerEnabled
         THEN [err   |-> New("sequencer must be enabled when conductor is enabled"),
               reads |-> 0, logs |-> <<>>]
         ELSE Pass
    ELSE Pass

\* `state, _ := cfg.ConfigPersistence.SequencerState()`: the store is read
\* once, its state is used and its error is dropped.
ConductorStep(c, answer) ==
    IF c.ConductorEnabled
    THEN IF answer.state # StateUnset
         THEN [err   |-> New("config persistence must be disabled when conductor is enabled"),
               reads |-> 1, logs |-> <<>>]
         ELSE IF ~c.SequencerEnabled
         THEN [err   |-> New("sequencer must be enabled when conductor is enabled"),
               reads |-> 1, logs |-> <<>>]
         ELSE [err |-> Nil, reads |-> 1, logs |-> <<>>]
    ELSE Pass

AltDAStep(c) ==
    IF c.AltDA # "ok"
    THEN Fail(Errorf("altDA config error", SubErr("AltDA")))
    ELSE IF c.AltDAEnabled
    THEN [err |-> Nil, reads |-> 0,
          logs |-> <<"warn: Alt-DA Mode is a Beta feature">>]
    ELSE Pass

\* Mutant of DACStep: only the "must be set" direction is checked.
DACStep_OneWay(c) ==
    IF c.SequencerEnabled /\ c.L2BlobTime /\ c.DACConfig = "nil"
    THEN Fail(New("dac.urls must be set for sequencer when l2 blob time is set"))
    ELSE Pass

DACStep(c) ==
    IF c.SequencerEnabled /\ c.L2BlobTime /\ c.DACConfig = "nil"
    THEN Fail(New("dac.urls must be set for sequencer when l2 blob time is set"))
    ELSE IF (~c.SequencerEnabled \/ ~c.L2BlobTime) /\ c.DACConfig # "nil"
    THEN Fail(New("dac.urls can only be set for sequencer when l2 blob time is set"))
    ELSE Pass

\* Mutant of CheckOrder: the metrics check moved to the front.
CheckOrder_MetricsFirst ==
    << "Metrics", "L1", "L2", "Ecotone", "Interop", "Rollup", "Pprof", "P2P",
       "RollupHalt", "Conductor", "AltDA", "DAC" >>

\* The statements of Check in the order of the source.
CheckOrder ==
    << "L1", "L2", "Ecotone", "Interop", "Rollup", "Metrics", "Pprof", "P2P",
       "RollupHalt", "Conductor", "AltDA", "DAC" >>

Step(name, c, answer) ==
    CASE name = "L1"         -> L1Step(c)
      [] name = "L2"         -> L2Step(c)
      [] name = "Ecotone"    -> EcotoneStep(c)
      [] name = "Interop"    -> InteropStep(c)
      [] name = "Rollup"     -> RollupStep(c)
      [] name = "Metrics"    -> MetricsStep(c)
      [] name = "Pprof"      -> PprofStep(c)
      [] name = "P2P"        -> P2PStep(c)
      [] name = "RollupHalt" -> RollupHaltStep(c)
      [] name = "Conductor"  -> ConductorStep(c, answer)
      [] name = "AltDA"      -> AltDAStep(c)
      [] name = "DAC"        -> DACStep(c)

\* Run the statements `todo` in turn; the first one that returns an error
\* ends the call.  step is the statement that returned ("" when Check ran
\* to its final `return nil`).
RECURSIVE RunChecks(_, _, _, _, _)
RunChecks(todo, c, answer, reads, logs) ==
    IF todo = <<>>
    THEN [err |-> Nil, step |-> "", reads |-> reads, logs |-> logs]
    ELSE LET r == Step(Head(todo), c, answer)
         IN  IF r.err # Nil
             THEN [err |-> r.err, step |-> Head(todo),
                   reads |-> reads + r.reads, logs |-> logs \o r.logs]
             ELSE RunChecks(Tail(todo), c, answer, reads + r.reads, logs \o r.logs)

Check(c, answer) == RunChecks(CheckOrder, c, answer, 0, <<>>)

\* ---- the node's state machine -------------------------------------------
NoCall == [op |-> "none", err |-> Nil, step |-> "", reads |-> 0, logs |-> <<>>,
           before |-> Verifier]

\* Every Config that differs from a profile in at most MaxChanged fields, and
\* every answer of the store.
NodeInit ==
    /\ \E profile \in Profiles, changes \in Changes(MaxChanged, 1) :
           cfg = Apply(profile, changes)
    /\ store \in StoreAnswers
    /\ last = NoCall

LoadPersistedCall ==
    LET r == LoadPersisted(cfg, store)
    IN  /\ cfg' = r.cfg
        /\ last' = [op |-> "LoadPersisted", err |-> r.err, step |-> "",
                    reads |-> r.reads, logs |-> r.logs, before |-> cfg]
        /\ UNCHANGED store
        /\ UNCHANGED tokenVars

CheckCall ==
    LET r == Check(cfg, store)
    IN  /\ last' = [op |-> "Check", err |-> r.err, step |-> r.step,
                    reads |-> r.reads, logs |-> r.logs, before |-> cfg]
        /\ UNCHANGED <<cfg, store>>
        /\ UNCHANGED tokenVars

MetricsCheckCall ==
    /\ last' = [op |-> "MetricsConfig.Check", err |-> MetricsCheck(Metrics(cfg)),
                step |-> "", reads |-> 0, logs |-> <<>>, before |-> cfg]
    /\ UNCHANGED <<cfg, store>>
    /\ UNCHANGED tokenVars


(***************************************************************************)
(*          PART 2: packages/contracts-bedrock/src/L2/SoulGasToken.sol     *)
(***************************************************************************)

\* Bounds of the token model.
MaxBatch   == 2   \* longest array passed to a batch or whitelist function
MaxValue   == 1   \* largest single amount passed to a call
NativeEach == 1   \* native tokens every account starts with
MintRoom   == 2   \* how far type(uint256).max lies above the native supply
MaxTx      == 3   \* transactions sent to the token in one behaviour

\* ---- addresses ----------------------------------------------------------
Owner             == "owner"       \* owner_ passed to initialize
Alice             == "alice"       \* any other externally owned account
DEPOSITOR_ACCOUNT == "depositor"   \* Constants.DEPOSITOR_ACCOUNT
Zero              == "0x0"         \* address(0)
Contract          == "sgt"         \* the token contract itself

Callers  == {Owner, Alice, DEPOSITOR_ACCOUNT}
Accounts == Callers \cup {Zero}

\* type(uint256).max, scaled down: arithmetic is checked (solidity 0.8), so
\* exceeding it reverts.
UintMax == Cardinality(Callers) * NativeEach + MintRoom

Values == 0 .. MaxValue

\* Arrays of at most MaxBatch elements.
Arrays(S) == UNION { [1 .. n -> S] : n \in 0 .. MaxBatch }

\* ---- ERC20 internals (ERC20Upgradeable._mint, _burn) --------------------
\* A token state inside a transaction: ok turns FALSE when a require or a
\* checked operation fails, which reverts the whole transaction.
Reverted(s) == [s EXCEPT !.ok = FALSE]

Mint(s, account, amount) ==
    IF ~s.ok THEN s
    ELSE IF account = Zero THEN Reverted(s)
    ELSE IF s.sup + amount > UintMax THEN Reverted(s)
    ELSE [s EXCEPT !.sup = @ + amount, !.bal[account] = @ + amount]

Burn(s, account, amount) ==
    IF ~s.ok THEN s
    ELSE IF account = Zero THEN Reverted(s)
    ELSE IF s.bal[account] < amount THEN Reverted(s)
    ELSE [s EXCEPT !.sup = @ - amount, !.bal[account] = @ - amount]

\* payable(to).transfer(amount) from the contract.
SendNative(s, to, amount) ==
    IF ~s.ok THEN s
    ELSE IF s.nat[Contract] < amount THEN Reverted(s)
    ELSE [s EXCEPT !.nat = [[@ EXCEPT ![Contract] = @ - amount]
                               EXCEPT ![to] = @ + amount]]

\* msg.value moves from the sender to the contract when a payable call starts.
Receive(s, from, amount) ==
    [s EXCEPT !.nat = [[@ EXCEPT ![from] = @ - amount]
                          EXCEPT ![Contract] = @ + amount]]

Require(s, cond) == IF s.ok /\ ~cond THEN Reverted(s) ELSE s

\* totalValue += values[i], checked.
AddTotal(s, amount) ==
    IF ~s.ok THEN s
    ELSE IF s.total + amount > UintMax THEN Reverted(s)
    ELSE [s EXCEPT !.total = @ + amount]

\* for (i = 0; i < accounts.length; i++) { _mint(accounts[i], values[i]); }
RECURSIVE MintLoop(_, _, _, _)
MintLoop(s, accounts, values, i) ==
    IF i > Len(accounts) \/ ~s.ok THEN s
    ELSE MintLoop(Mint(s, accounts[i], values[i]), accounts, values, i + 1)

\* ... { _mint(accounts[i], values[i]); totalValue += values[i]; }
RECURSIVE DepositLoop(_, _, _, _)
DepositLoop(s, accounts, values, i) ==
    IF i > Len(accounts) \/ ~s.ok THEN s
    ELSE DepositLoop(AddTotal(Mint(s, accounts[i], values[i]), values[i]),
                     accounts, values, i + 1)

\* for (i = 0; i < accounts.length; i++) { _burn(accounts[i], values[i]); }
RECURSIVE BurnLoop(_, _, _, _)
BurnLoop(s, accounts, values, i) ==
    IF i > Len(accounts) \/ ~s.ok THEN s
    ELSE BurnLoop(Burn(s, accounts[i], values[i]), accounts, values, i + 1)

\* ... { _burn(accounts[i], values[i]); totalValue += values[i]; }
RECURSIVE WithdrawLoop(_, _, _, _)
WithdrawLoop(s, accounts, values, i) ==
    IF i > Len(accounts) \/ ~s.ok THEN s
    ELSE WithdrawLoop(AddTotal(Burn(s, accounts[i], values[i]), values[i]),
                      accounts, values, i + 1)

\* The state a transaction starts from.
Start == [ok |-> TRUE, bal |-> balances, sup |-> totalSupply, nat |-> native,
          total |-> 0]

\* ---- the external functions, as functions of the start state -----------
deposit(sender, value) ==
    LET s0 == Receive(Start, sender, value)
        s1 == Require(s0, backed)
    IN  Mint(s1, sender, value)

\* Mutant of batchDepositFor: msg.value is not compared with the total.
batchDepositFor_NoValueCheck(sender, value, accounts, values) ==
    LET s0 == Receive(Start, sender, value)
        s1 == Require(s0, Len(accounts) = Len(values))
        s2 == Require(s1, backed)
    IN  DepositLoop(s2, accounts, values, 1)

batchDepositFor(sender, value, accounts, values) ==
    LET s0 == Receive(Start, sender, value)
        s1 == Require(s0, Len(accounts) = Len(values))
        s2 == Require(s1, backed)
        s3 == DepositLoop(s2, accounts, values, 1)
    IN  Require(s3, value = s3.total)

withdrawFrom(sender, account, value) ==
    LET s1 == Require(Start, backed)
        s2 == Require(s1, sender \in burners)
        s3 == Burn(s2, account, value)
    IN  SendNative(s3, sender, value)

batchWithdrawFrom(sender, accounts, values) ==
    LET s1 == Require(Start, Len(accounts) = Len(values))
        s2 == Require(s1, backed)
        s3 == Require(s2, sender \in burners)
        s4 == WithdrawLoop(s3, accounts, values, 1)
    IN  SendNative(s4, sender, s4.total)

\* Mutant of batchMint: the caller is not checked.
batchMint_AnyCaller(sender, accounts, values) ==
    LET s1 == Require(Start, Len(accounts) = Len(values))
    IN  MintLoop(s1, accounts, values, 1)

batchMint(sender, accounts, values) ==
    LET s1 == Require(Start, Len(accounts) = Len(values))
        s2 == Require(s1, sender = DEPOSITOR_ACCOUNT \/ sender \in minters)
    IN  MintLoop(s2, accounts, values, 1)

burnFrom(sender, account, value) ==
    LET s1 == Require(Start, ~backed)
        s2 == Require(s1, sender = DEPOSITOR_ACCOUNT \/ sender \in burners)
    IN  Burn(s2, account, value)

batchBurnFrom(sender, accounts, values) ==
    LET s1 == Require(Start, Len(accounts) = Len(values))
        s2 == Require(s1, ~backed)
        s3 == Require(s2, sender = DEPOSITOR_ACCOUNT \/ sender \in burners)
    IN  BurnLoop(s3, accounts, values, 1)

\* modifier onlyOwner, then the mode the whitelist function requires.
addMintersOk(sender) == sender = Owner /\ ~backed
delMintersOk(sender) == sender = Owner /\ ~backed
addBurnersOk(sender) == sender = Owner
delBurnersOk(sender) == sender = Owner
allowSgtValueOk(sender)    == sender = Owner /\ backed
disallowSgtValueOk(sender) == sender = Owner /\ backed

Range(arr) == { arr[i] : i \in 1 .. Len(arr) }


\* ---- the token's state machine ------------------------------------------
NoTx == [fn |-> "none", sender |-> Zero, ok |-> TRUE, n |-> 0]

TokenInit(isBackedByNative) ==
    /\ backed = isBackedByNative
    /\ minters = {}
    /\ burners = {}
    /\ allowSgtValue = {}
    /\ balances = [a \in Callers |-> 0]
    /\ totalSupply = 0
    /\ native = [a \in Callers \cup {Contract} |->
                   IF a = Contract THEN 0 ELSE NativeEach]
    /\ tx = NoTx

\* A transaction that ran to state s: committed when s.ok, else reverted.
Commit(fn, sender, s) ==
    /\ tx.n < MaxTx
    /\ tx' = [fn |-> fn, sender |-> sender, ok |-> s.ok, n |-> tx.n + 1]
    /\ balances' = IF s.ok THEN s.bal ELSE balances
    /\ totalSupply' = IF s.ok THEN s.sup ELSE totalSupply
    /\ native' = IF s.ok THEN s.nat ELSE native
    /\ UNCHANGED <<minters, burners, allowSgtValue, backed>>
    /\ UNCHANGED nodeVars

\* A whitelist transaction: the new whitelists when allowed, else reverted.
CommitLists(fn, sender, allowed, newMinters, newBurners, newAllowed) ==
    /\ tx.n < MaxTx
    /\ tx' = [fn |-> fn, sender |-> sender, ok |-> allowed, n |-> tx.n + 1]
    /\ minters' = IF allowed THEN newMinters ELSE minters
    /\ burners' = IF allowed THEN newBurners ELSE burners
    /\ allowSgtValue' = IF allowed THEN newAllowed ELSE allowSgtValue
    /\ UNCHANGED <<balances, totalSupply, native, backed>>
    /\ UNCHANGED nodeVars

Deposit ==
    \E sender \in Callers :
        \E value \in 0 .. native[sender] :
            Commit("deposit", sender, deposit(sender, value))

BatchDepositFor ==
    \E sender \in Callers, accounts \in Arrays(Accounts), values \in Arrays(Values) :
        \E value \in 0 .. native[sender] :
            Commit("batchDepositFor", sender,
                   batchDepositFor(sender, value, accounts, values))

WithdrawFrom ==
    \E sender \in Callers, account \in Accounts, value \in Values :
        Commit("withdrawFrom", sender, withdrawFrom(sender, account, value))

BatchWithdrawFrom ==
    \E sender \in Callers, accounts \in Arrays(Accounts), values \in Arrays(Values) :
        Commit("batchWithdrawFrom", sender,
               batchWithdrawFrom(sender, accounts, values))

BatchMint ==
    \E sender \in Callers, accounts \in Arrays(Accounts), values \in Arrays(Values) :
        Commit("batchMint", sender, batchMint(sender, accounts, values))

BurnFrom ==
    \E sender \in Callers, account \in Accounts, value \in Values :
        Commit("burnFrom", sender, burnFrom(sender, account, value))

BatchBurnFrom ==
    \E sender \in Callers, accounts \in Arrays(Accounts), values \in Arrays(Values) :
        Commit("batchBurnFrom", sender, batchBurnFrom(sender, accounts, values))

AddMinters ==
    \E sender \in Callers, list \in Arrays(Callers) :
        CommitLists("addMinters", sender, addMintersOk(sender),
                    minters \cup Range(list), burners, allowSgtValue)

DelMinters ==
    \E sender \in Callers, list \in Arrays(Callers) :
        CommitLists("delMinters", sender, delMintersOk(sender),
                    minters \ Range(list), burners, allowSgtValue)

AddBurners ==
    \E sender \in Callers, list \in Arrays(Callers) :
        CommitLists("addBurners", sender, addBurnersOk(sender),
                    minters, burners \cup Range(list), allowSgtValue)

DelBurners ==
    \E sender \in Callers, list \in Arrays(Callers) :
        CommitLists("delBurners", sender, delBurnersOk(sender),
                    minters, burners \ Range(list), allowSgtValue)

AllowSgtValue ==
    \E sender \in Callers, list \in Arrays(Callers) :
        CommitLists("allowSgtValue", sender, allowSgtValueOk(sender),
                    minters, burners, allowSgtValue \cup Range(list))

DisallowSgtValue ==
    \E sender \in Callers, list \in Arrays(Callers) :
        CommitLists("disallowSgtValue", sender, disallowSgtValueOk(sender),
                    minters, burners, allowSgtValue \ Range(list))

\* transfer, transferFrom and approve always revert.
Disabled ==
    \E sender \in Callers, fn \in {"transfer", "transferFrom", "approve"} :
        Commit(fn, sender, Reverted(Start))

TokenNext ==
    \/ Deposit
    \/ BatchDepositFor
    \/ WithdrawFrom
    \/ BatchWithdrawFrom
    \/ BatchMint
    \/ BurnFrom
    \/ BatchBurnFrom
    \/ AddMinters
    \/ DelMinters
    \/ AddBurners
    \/ DelBurners
    \/ AllowSgtValue
    \/ DisallowSgtValue
    \/ Disabled

NodeNext ==
    \/ LoadPersistedCall
    \/ CheckCall
    \/ MetricsCheckCall

\* ---- specifications -----------------------------------------------------
\* The node: every Config within MaxChanged fields of a profile, every store
\* answer, and calls of LoadPersisted, Check and MetricsConfig.Check in any
\* order.  The token is left as deployed.
InitNode == NodeInit /\ TokenInit(FALSE)
SpecNode == InitNode /\ [][NodeNext]_vars

NodeIdle ==
    /\ cfg = Verifier
    /\ store = [state |-> StateUnset, err |-> Nil]
    /\ last = NoCall

\* The token deployed with isBackedByNative_ = false (SoulETH mode).
InitSoulETH == NodeIdle /\ TokenInit(FALSE)
SpecSoulETH == InitSoulETH /\ [][TokenNext]_vars

\* The token deployed with isBackedByNative_ = true (SoulQKC mode).
InitSoulQKC == NodeIdle /\ TokenInit(TRUE)
SpecSoulQKC == InitSoulQKC /\ [][TokenNext]_vars


(***************************************************************************)
(*                       PROPERTIES OF Config (SpecNode)                   *)
(***************************************************************************)

\* The order of the twelve checks as the specification lists them.
ListedOrder ==
    << "L1", "L2", "Ecotone", "Interop", "Rollup", "Metrics", "Pprof", "P2P",
       "RollupHalt", "Conductor", "AltDA", "DAC" >>

Position(name) == CHOOSE i \in 1 .. Len(ListedOrder) : ListedOrder[i] = name

\* Whether the listed check `name` is violated by the current Config.
Violated(name) == Step(name, cfg, store).err # Nil

\* Whether every check listed before `name` passes on the current Config.
PassBefore(name) ==
    \A i \in 1 .. Len(ListedOrder) :
        i < Position(name) => ~Violated(ListedOrder[i])

Checked == last.op = "Check"

\* C1: when checks 1-11 pass, Check succeeds iff (sequencer enabled and L2
\* blob time set) has the same truth value as (DACConfig present).
C1_DACBiconditional ==
    (Checked /\ PassBefore("DAC")) =>
        ((last.err = Nil) <=>
            ((cfg.SequencerEnabled /\ cfg.L2BlobTime) <=> (cfg.DACConfig # "nil")))

\* C1 witness: a non-sequencer with blob time set and a DACConfig is refused
\* by the DAC check.
C1_Witness ==
    /\ Checked /\ PassBefore("DAC")
    /\ ~cfg.SequencerEnabled /\ cfg.L2BlobTime /\ cfg.DACConfig = "set"
    /\ last.step = "DAC" /\ last.err # Nil

\* C2 as stated: with the L1 and L2 checks passing, for each gated pair, a
\* set timestamp makes Check fail at that step iff the endpoint is nil or
\* invalid, and an unset timestamp never makes it fail at that step.
C2_AsStated ==
    (Checked /\ PassBefore("Ecotone")) =>
        /\ cfg.EcotoneTime  => ((last.step = "Ecotone") <=> (cfg.Beacon # "ok"))
        /\ ~cfg.EcotoneTime => last.step # "Ecotone"
        /\ cfg.InteropTime  => ((last.step = "Interop") <=> (cfg.Supervisor # "ok"))
        /\ ~cfg.InteropTime => last.step # "Interop"

\* C2 amended: the same, where the Interop pair is only reached when the
\* Ecotone step passed as well.
C2_UpgradeGatedEndpoints ==
    /\ (Checked /\ PassBefore("Ecotone")) =>
          /\ cfg.EcotoneTime  => ((last.step = "Ecotone") <=> (cfg.Beacon # "ok"))
          /\ ~cfg.EcotoneTime => last.step # "Ecotone"
    /\ (Checked /\ PassBefore("Interop")) =>
          /\ cfg.InteropTime  => ((last.step = "Interop") <=> (cfg.Supervisor # "ok"))
          /\ ~cfg.InteropTime => last.step # "Interop"
    /\ (Checked /\ ~cfg.InteropTime) => last.step # "Interop"

\* C2 witness: Interop scheduled, Ecotone step passed, no supervisor
\* endpoint: Check fails at the Interop step.
C2_Witness ==
    /\ Checked /\ PassBefore("Interop")
    /\ cfg.EcotoneTime /\ cfg.Beacon = "ok"
    /\ cfg.InteropTime /\ cfg.Supervisor = "nil"
    /\ last.step = "Interop" /\ last.err # Nil

\* The listed checks the current Config violates, by position.
ViolatedPositions == { i \in 1 .. Len(ListedOrder) : Violated(ListedOrder[i]) }

Earliest == CHOOSE i \in ViolatedPositions : \A j \in ViolatedPositions : i <= j

\* C3: Check returns the error of the earliest violated check in the listed
\* order, and nothing after it is evaluated: the store is not read and the
\* AltDA warning is not logged when an earlier step fails.
C3_FailFastOrdering ==
    Checked =>
        IF ViolatedPositions = {}
        THEN last.err = Nil /\ last.step = ""
        ELSE /\ last.step = ListedOrder[Earliest]
             /\ last.err = Step(ListedOrder[Earliest], cfg, store).err
             /\ Earliest < Position("Conductor") => last.reads = 0
             /\ Earliest < Position("AltDA") => last.logs = <<>>

\* C3 witness: an invalid L1 endpoint together with an invalid metrics port
\* reports the L1 endpoint's error.
C3_Witness ==
    /\ Checked
    /\ cfg.L1 = "bad"
    /\ cfg.MetricsEnabled /\ cfg.MetricsPort > MaxUint16
    /\ last.step = "L1" /\ last.err.wraps = SubErr("L1").msg

\* C4: with the conductor enabled and checks 1-9 passing, Check fails at the
\* conductor step if the store reports a state other than StateUnset or if
\* the sequencer is disabled, and does not fail there otherwise; with the
\* conductor disabled the step never fails and never reads the store.
C4_ConductorExclusivity ==
    /\ (Checked /\ cfg.ConductorEnabled /\ PassBefore("Conductor")) =>
          /\ store.state # StateUnset => (last.step = "Conductor" /\ last.err # Nil)
          /\ ~cfg.SequencerEnabled    => (last.step = "Conductor" /\ last.err # Nil)
          /\ (cfg.SequencerEnabled /\ store.state = StateUnset) =>
                 last.step # "Conductor"
    /\ (Checked /\ ~cfg.ConductorEnabled) =>
          (last.step # "Conductor" /\ last.reads = 0)

\* C4 witness: conductor and sequencer enabled while the store holds a
\* started state: Check fails at the conductor step.
C4_Witness ==
    /\ Checked /\ cfg.ConductorEnabled /\ cfg.SequencerEnabled
    /\ PassBefore("Conductor")
    /\ store.state = StateStarted /\ store.err = Nil
    /\ last.step = "Conductor" /\ last.err # Nil /\ last.reads = 1

\* C5: whenever an operation reads the store and the read fails, the
\* operation returns that error unchanged.
C5_StoreErrorsPropagate ==
    (last.reads > 0 /\ store.err # Nil) => last.err = store.err

\* C6: LoadPersisted (a) does nothing and reads nothing when sequencing is
\* disabled, (b) leaves SequencerStopped alone on StateUnset, (c) sets it to
\* (state = stopped) on started / stopped whatever the caller supplied,
\* (d) returns the store's error and changes nothing when the read fails;
\* it changes no other field, and calling it again gives the same value.
C6_LoadPersisted ==
    last.op = "LoadPersisted" =>
        LET b == last.before IN
        /\ ~b.SequencerEnabled => (last.err = Nil /\ last.reads = 0 /\ cfg = b)
        /\ (b.SequencerEnabled /\ store.err = Nil /\ store.state = StateUnset) =>
               (last.err = Nil /\ cfg = b)
        /\ (b.SequencerEnabled /\ store.err = Nil /\ store.state # StateUnset) =>
               (last.err = Nil /\ cfg.SequencerStopped = (store.state = StateStopped))
        /\ (b.SequencerEnabled /\ store.err # Nil) =>
               (last.err = store.err /\ cfg = b)
        /\ \A f \in Fields \ {"SequencerStopped"} : cfg[f] = b[f]
        /\ LoadPersisted(cfg, store).cfg.SequencerStopped = cfg.SequencerStopped

\* C6 witness: the caller supplied "not stopped", the store says stopped, and
\* the call overrode the flag.
C6_Witness ==
    /\ last.op = "LoadPersisted"
    /\ last.before.SequencerEnabled /\ ~last.before.SequencerStopped
    /\ store.state = StateStopped /\ store.err = Nil
    /\ cfg.SequencerStopped /\ last.err = Nil

\* The label under which a failure of each check is to be reported: the name
\* of the check's own subsystem.
OwnLabel(name) ==
    CASE name = "L1"         -> {"l1 endpoint config error"}
      [] name = "L2"         -> {"l2 endpoint config error"}
      [] name = "Ecotone"    -> {"the Ecotone upgrade is scheduled but no L1 Beacon API endpoint is configured",
                                 "misconfigured L1 Beacon API endpoint"}
      [] name = "Interop"    -> {"the Interop upgrade is scheduled but no supervisor RPC endpoint is configured",
                                 "misconfigured supervisor RPC endpoint"}
      [] name = "Rollup"     -> {"rollup config error"}
      [] name = "Metrics"    -> {"metrics config error"}
      [] name = "Pprof"      -> {"pprof config error"}
      [] name = "P2P"        -> {"p2p config error"}
      [] name = "RollupHalt" -> {"invalid rollup halting option"}
      [] name = "Conductor"  -> {"config persistence must be disabled when conductor is enabled",
                                 "sequencer must be enabled when conductor is enabled"}
      [] name = "AltDA"      -> {"altDA config error"}
      [] name = "DAC"        -> {"dac.urls must be set for sequencer when l2 blob time is set",
                                 "dac.urls can only be set for sequencer when l2 blob time is set"}

\* C7: the error of the first failing check carries that check's own
\* subsystem label, and no label of another check.
C7_OwnSubsystemLabel ==
    (Checked /\ last.err # Nil) =>
        /\ last.err.msg \in OwnLabel(last.step)
        /\ \A other \in Range(ListedOrder) \ {last.step} :
               last.err.msg \notin OwnLabel(other)

\* C8: MetricsConfig.Check returns an error iff Enabled and the port is
\* outside 0..65535.
C8_MetricsPortBoundary ==
    last.op = "MetricsConfig.Check" =>
        ((last.err # Nil) <=>
            (cfg.MetricsEnabled /\ cfg.MetricsPort \notin 0 .. 65535))

\* C8 witness: metrics enabled on port 65536 is refused.
C8_Witness ==
    /\ last.op = "MetricsConfig.Check"
    /\ cfg.MetricsEnabled /\ cfg.MetricsPort = 65536
    /\ last.err = New("invalid metrics port")

(***************************************************************************)
(*                       PROPERTIES OF SoulGasToken                        *)
(***************************************************************************)

\* A step in which a successful call increased the supply or a balance.
Minted ==
    /\ tx'.n = tx.n + 1 /\ tx'.ok
    /\ \/ totalSupply' > totalSupply
       \/ \E a \in Callers : balances'[a] > balances[a]

C10_AsStated == backed => totalSupply <= native[Contract]

\* C10 amended: the supply's excess over the contract's native balance grows
\* only by a batchMint of DEPOSITOR_ACCOUNT; every other call, by any caller,
\* leaves the excess as it is or lowers it, and a reverted call leaves
\* balances, supply and native balances unchanged.
C10_BackingExceptDepositorMint ==
    [][ backed =>
          /\ (totalSupply' - native'[Contract] > totalSupply - native[Contract]) =>
                 (tx'.fn = "batchMint" /\ tx'.sender = DEPOSITOR_ACCOUNT /\ tx'.ok)
          /\ (tx'.n = tx.n + 1 /\ ~tx'.ok) =>
                 UNCHANGED <<balances, totalSupply, native>> ]_vars

\* C10 witness: the owner deposited, and Alice, made a burner, withdrew the
\* owner's token: supply and backing are both back to zero and Alice holds
\* the native token.
C10_Witness ==
    /\ backed
    /\ tx.fn = "withdrawFrom" /\ tx.ok /\ tx.sender = Alice
    /\ totalSupply = 0 /\ native[Contract] = 0
    /\ native[Alice] = NativeEach + 1 /\ native[Owner] = NativeEach - 1

============================================================================
